---- MODULE Spec2Model ----
(***************************************************************************)
(* The autoscaling request router: the persisted registry                  *)
(* (AutoscalerState), the Router, the Scaler, the InstanceManager and the  *)
(* Controller (request handling, background scale-up, heartbeat).          *)
(*                                                                         *)
(* Time is an integer clock `now` (a number of ticks).  The code stores    *)
(* timestamps as ISO-8601 strings made by Date.toISOString() and reads     *)
(* them back with new Date(s).getTime(); at millisecond precision this     *)
(* round trip is lossless and the strings sort as the instants do, so a    *)
(* timestamp is modelled by the integer it denotes.                        *)
(*                                                                         *)
(* The record fields created_at, last_request_at and last_health_check are *)
(* written but never read by any decision and are left out.                *)
(***************************************************************************)
EXTENDS Integers, Sequences, FiniteSets, Bags, TLC

VARIABLES
    cfg,        \* AutoscalerConfig, fixed after construction
    instances,  \* table `instances`: name -> InstanceRecord (partial function)
    capacity,   \* table `instance_capacity`: [current_count, max_count]
    scaling,    \* table `scaling_state`: [last_scale_up, last_scale_down]
    now,        \* Date.now()
    alarm,      \* time of the scheduled alarm, Null when none is scheduled
    containers, \* names of the containers the runtime holds
    nextId,     \* next fresh container id (nanoid)
    reqs,       \* bag of the requests in flight, each at its await
    tasks,      \* bag of the detached container creations in flight
    hb,         \* the heartbeat: its position and locals
    ev,         \* what the last step reported (return values, responses)
    ret         \* result of the operation applied by a function-level check

vars == <<cfg, instances, capacity, scaling, now, alarm, containers, nextId,
          reqs, tasks, hb, ev, ret>>

-----------------------------------------------------------------------------
(* Values *)

\* SQL NULL / JS null of a timestamp column
Null == -1

\* a config option that is not set (JS undefined)
Undefined == -1

\* selectInstance's `null`: no instance
None == 0

Max(a, b) == IF a >= b THEN a ELSE b

Min(a, b) == IF a <= b THEN a ELSE b

-----------------------------------------------------------------------------
(* Registry: AutoscalerState *)

\* a row as INSERT creates it (recordInstance / incrementRequests)
NewRecord(initialRequests, healthy, t) ==
    [ active_requests |-> initialRequests,
      current_cpu |-> 0, current_memory |-> 0, current_disk |-> 0,
      healthy |-> healthy,
      last_heartbeat |-> t,
      draining |-> FALSE, draining_since |-> Null,
      health_check_failures |-> 0,
      threshold_crossed_at |-> Null ]

Put(I, name, rec) == [n \in DOMAIN I \cup {name} |-> IF n = name THEN rec ELSE I[n]]

\* an upsert that overwrites active_requests instead of adding to it
recordInstanceOverwrites(I, name, initialRequests, healthy, t) ==
    LET rec == IF name \in DOMAIN I
               THEN [I[name] EXCEPT !.active_requests = initialRequests,
                                    !.last_heartbeat = t,
                                    !.healthy = healthy]
               ELSE NewRecord(initialRequests, healthy, t)
    IN [inst |-> Put(I, name, rec),
        previousRequests |-> rec.active_requests - initialRequests]

\* INSERT ... ON CONFLICT(name) DO UPDATE ... RETURNING active_requests - ?
recordInstance(I, name, initialRequests, healthy, t) ==
    LET rec == IF name \in DOMAIN I
               THEN [I[name] EXCEPT !.active_requests = @ + initialRequests,
                                    !.last_heartbeat = t,
                                    !.healthy = healthy]
               ELSE NewRecord(initialRequests, healthy, t)
    IN [inst |-> Put(I, name, rec),
        previousRequests |-> rec.active_requests - initialRequests]

removeInstance(I, name) == [n \in DOMAIN I \ {name} |-> I[n]]

\* RETURNING active_requests: the value after the update
incrementRequestsReturnsNew(I, name, t, healthy, amount) ==
    LET rec == IF name \in DOMAIN I
               THEN [I[name] EXCEPT !.active_requests = @ + amount,
                                    !.last_heartbeat = t,
                                    !.healthy = healthy]
               ELSE NewRecord(amount, healthy, t)
    IN [inst |-> Put(I, name, rec), previousRequests |-> rec.active_requests]

\* INSERT OR REPLACE: the row is written anew, draining = 0
incrementRequestsReplacesRow(I, name, t, healthy, amount) ==
    LET before == IF name \in DOMAIN I THEN I[name].active_requests ELSE 0
    IN [inst |-> Put(I, name, NewRecord(before + amount, healthy, t)),
        previousRequests |-> before]

\* the same statement as recordInstance, with `amount`
incrementRequests(I, name, t, healthy, amount) ==
    LET rec == IF name \in DOMAIN I
               THEN [I[name] EXCEPT !.active_requests = @ + amount,
                                    !.last_heartbeat = t,
                                    !.healthy = healthy]
               ELSE NewRecord(amount, healthy, t)
    IN [inst |-> Put(I, name, rec),
        previousRequests |-> rec.active_requests - amount]

\* SET active_requests = active_requests - 1, without MAX(0, ...)
decrementRequestsUnclamped(I, name) ==
    IF name \in DOMAIN I
    THEN [I EXCEPT ![name].active_requests = @ - 1]
    ELSE I

\* an UPDATE whose WHERE clause matches no row
decrementRequestsNoRow(I, name) == I

\* UPDATE ... SET active_requests = MAX(0, active_requests - 1) WHERE name = ?
decrementRequests(I, name) ==
    IF name \in DOMAIN I
    THEN [I EXCEPT ![name].active_requests = Max(0, @ - 1)]
    ELSE I

\* a WHERE clause that forgets the draining condition
MatchingKeepsDraining(I, filter) ==
    { n \in DOMAIN I :
        /\ (filter.healthy = "true" => I[n].healthy)
        /\ (filter.healthy = "false" => ~I[n].healthy)
        /\ (filter.belowCapacity # Undefined =>
                I[n].active_requests < filter.belowCapacity) }

\* the rows a filter's WHERE clause keeps
Matching(I, filter) ==
    { n \in DOMAIN I :
        /\ (filter.healthy = "true" => I[n].healthy)
        /\ (filter.healthy = "false" => ~I[n].healthy)
        /\ (filter.notDraining => ~I[n].draining)
        /\ (filter.belowCapacity # Undefined =>
                I[n].active_requests < filter.belowCapacity) }

Perms(S) ==
    { s \in [1..Cardinality(S) -> S] :
        \A i, j \in 1..Cardinality(S) : i # j => s[i] # s[j] }

\* ORDER BY active_requests ASC, last_heartbeat ASC
OrderedByOldestFirst(I, s) ==
    \A i \in 1..(Len(s) - 1) :
        \/ I[s[i]].active_requests < I[s[i + 1]].active_requests
        \/ /\ I[s[i]].active_requests = I[s[i + 1]].active_requests
           /\ I[s[i]].last_heartbeat <= I[s[i + 1]].last_heartbeat

\* ORDER BY active_requests ASC, last_heartbeat DESC
OrderedBy(I, s) ==
    \A i \in 1..(Len(s) - 1) :
        \/ I[s[i]].active_requests < I[s[i + 1]].active_requests
        \/ /\ I[s[i]].active_requests = I[s[i + 1]].active_requests
           /\ I[s[i]].last_heartbeat >= I[s[i + 1]].last_heartbeat

\* The result lists SQL may return: rows equal in both sort keys come in any order.
getInstances(I, filter) == { s \in Perms(Matching(I, filter)) : OrderedBy(I, s) }

NoFilter == [healthy |-> "undefined", notDraining |-> FALSE, belowCapacity |-> Undefined]

HealthyNotDraining == [healthy |-> "true", notDraining |-> TRUE, belowCapacity |-> Undefined]

getInstanceCount(I, healthyOnly) ==
    Cardinality({ n \in DOMAIN I : healthyOnly => I[n].healthy })

\* UPDATE ... SET current_count = current_count + 1 WHERE current_count < max_count
\* a reservation that is granted without being counted
tryReserveSlotUncounted(cap) ==
    [ok |-> cap.current_count < cap.max_count, cap |-> cap]

tryReserveSlot(cap) ==
    IF cap.current_count < cap.max_count
    THEN [ok |-> TRUE, cap |-> [cap EXCEPT !.current_count = @ + 1]]
    ELSE [ok |-> FALSE, cap |-> cap]

\* a release that gives nothing back
releaseSlotKeeps(cap) == cap

releaseSlot(cap) == [cap EXCEPT !.current_count = Max(0, @ - 1)]

syncCapacity(cap, I) == [cap EXCEPT !.current_count = Cardinality(DOMAIN I)]

\* a scale-up that leaves no timestamp
recordScaleUpForgets(sc, t) == sc

recordScaleUp(sc, t) == [sc EXCEPT !.last_scale_up = t]

recordScaleDown(sc, t) == [sc EXCEPT !.last_scale_down = t]

updateHealth(I, name, healthy, failures) ==
    IF name \in DOMAIN I
    THEN [I EXCEPT ![name].health_check_failures = failures, ![name].healthy = healthy]
    ELSE I

getHealthCheckFailures(I, name) ==
    IF name \in DOMAIN I THEN I[name].health_check_failures ELSE 0

updateMetrics(I, name, cpu, memory, disk) ==
    IF name \in DOMAIN I
    THEN [I EXCEPT ![name].current_cpu = cpu,
                   ![name].current_memory = memory,
                   ![name].current_disk = disk]
    ELSE I

updateHeartbeat(I, name, t) ==
    IF name \in DOMAIN I THEN [I EXCEPT ![name].last_heartbeat = t] ELSE I

markDraining(I, name, t) ==
    IF name \in DOMAIN I
    THEN [I EXCEPT ![name].draining = TRUE, ![name].draining_since = t]
    ELSE I

\* SELECT ... FROM instances WHERE draining = 1
getDrainingInstances(I) == { n \in DOMAIN I : I[n].draining }

\* records the time an instance crossed a scale-up threshold
markThresholdCrossed(I, name, t) ==
    IF name \in DOMAIN I THEN [I EXCEPT ![name].threshold_crossed_at = t] ELSE I

\* table instance_capacity before its row exists
NoRow == [current_count |-> Null, max_count |-> Null]

\* INSERT OR REPLACE: the row is seeded again on every call
migrateReseeds(cap, I, maxInstances) ==
    [current_count |-> Cardinality(DOMAIN I), max_count |-> maxInstances]

\* INSERT OR IGNORE INTO instance_capacity: seeds the row when there is none
migrate(cap, I, maxInstances) ==
    IF cap = NoRow
    THEN [current_count |-> Cardinality(DOMAIN I), max_count |-> maxInstances]
    ELSE cap

-----------------------------------------------------------------------------
(* Router *)

\* the instances selectInstance may return (None when there is none)
selectInstance(I, c) ==
    LET below == getInstances(I, [healthy |-> "true", notDraining |-> TRUE,
                                  belowCapacity |-> c.maxRequestsPerInstance])
        anyHealthy == getInstances(I, HealthyNotDraining)
    IN IF \E s \in below : Len(s) > 0
       THEN { s[1] : s \in below }
       ELSE IF \E s \in anyHealthy : Len(s) > 0
            THEN { s[1] : s \in anyHealthy }
            ELSE {None}

\* Math.floor(maxRequestsPerInstance * threshold); the threshold is the
\* fraction capNum / capDen (default 0.7)
capacityLimit(c) == (c.maxRequestsPerInstance * c.capNum) \div c.capDen

\* a test of the new count alone, without "from below"
checkOptimisticScaleUpAtOrAbove(c, previousActiveRequests) ==
    /\ c.maxRequestsPerInstance # Undefined
    /\ previousActiveRequests + 1 >= capacityLimit(c)

checkOptimisticScaleUp(c, previousActiveRequests) ==
    IF c.maxRequestsPerInstance = Undefined \/ c.maxRequestsPerInstance = 0
    THEN FALSE
    ELSE /\ previousActiveRequests < capacityLimit(c)
         /\ previousActiveRequests + 1 >= capacityLimit(c)

-----------------------------------------------------------------------------
(* Scaler *)

\* config.scaleUpCooldown ?? 60_000
scaleUpCooldown(c) == IF c.scaleUpCooldown = Undefined THEN 60000 ELSE c.scaleUpCooldown

\* config.scaleDownCooldown ?? 120_000
scaleDownCooldown(c) == IF c.scaleDownCooldown = Undefined THEN 120000 ELSE c.scaleDownCooldown

hasSpecificThresholds(c) ==
    \/ c.scaleThesholdCPU # Undefined
    \/ c.scaleThesholdMemoryMiB # Undefined
    \/ c.scaleThesholdDiskGB # Undefined

hasAllSpecificThresholds(c) ==
    /\ c.scaleThesholdCPU # Undefined
    /\ c.scaleThesholdMemoryMiB # Undefined
    /\ c.scaleThesholdDiskGB # Undefined

isInScaleUpCooldown(sc, t, c) ==
    IF sc.last_scale_up = Null
    THEN FALSE
    ELSE t - sc.last_scale_up < scaleUpCooldown(c)

\* a cooldown test that reads last_scale_up instead of last_scale_down
isInScaleDownCooldownReadsUp(sc, t, c) ==
    IF sc.last_scale_up = Null
    THEN FALSE
    ELSE t - sc.last_scale_up < scaleDownCooldown(c)

isInScaleDownCooldown(sc, t, c) ==
    IF sc.last_scale_down = Null
    THEN FALSE
    ELSE t - sc.last_scale_down < scaleDownCooldown(c)

\* a test that forgets the instance's last crossing
canCrossAnyTime(rec, t, c) == TRUE

\* the loop body's test: the instance has not crossed recently
canCross(rec, t, c) ==
    \/ rec.threshold_crossed_at = Null
    \/ t - rec.threshold_crossed_at >= scaleUpCooldown(c)

\* the loop body's test: a metric is over its scale-up threshold
exceedsThreshold(rec, c) ==
    IF hasAllSpecificThresholds(c)
    THEN \/ rec.current_cpu > c.scaleThesholdCPU
         \/ rec.current_memory > c.scaleThesholdMemoryMiB
         \/ rec.current_disk > c.scaleThesholdDiskGB
    ELSE IF c.scaleThreshold # Undefined
         THEN \/ rec.current_cpu > c.scaleThreshold
              \/ rec.current_memory > c.scaleThreshold
              \/ rec.current_disk > c.scaleThreshold
         ELSE FALSE

\* the first instance of the list s that crosses, None when none does
FirstCrossing(I, s, t, c) ==
    LET hits == { i \in 1..Len(s) : canCross(I[s[i]], t, c) /\ exceedsThreshold(I[s[i]], c) }
    IN IF hits = {} THEN None
       ELSE s[CHOOSE i \in hits : \A j \in hits : i <= j]

\* The outcomes of shouldScaleUpForMetrics: its result, the instance it marked
\* and the registry it leaves (one outcome per order getInstances may return).
shouldScaleUpForMetrics(I, sc, t, c) ==
    IF \/ getInstanceCount(I, TRUE) >= c.maxInstances
       \/ isInScaleUpCooldown(sc, t, c)
       \/ (~hasSpecificThresholds(c) /\ (c.scaleThreshold = Undefined \/ c.scaleThreshold = 0))
    THEN { [result |-> FALSE, name |-> None, inst |-> I] }
    ELSE { LET n == FirstCrossing(I, s, t, c)
           IN IF n = None
              THEN [result |-> FALSE, name |-> None, inst |-> I]
              ELSE [result |-> TRUE, name |-> n, inst |-> markThresholdCrossed(I, n, t)]
           : s \in getInstances(I, HealthyNotDraining) }

shouldScaleUpForRequests(I, sc, t, c) ==
    LET currentCount == getInstanceCount(I, TRUE)
        healthy == Matching(I, HealthyNotDraining)
        RECURSIVE Sum(_)
        Sum(S) == IF S = {} THEN 0
                  ELSE LET n == CHOOSE x \in S : TRUE
                       IN I[n].active_requests + Sum(S \ {n})
    IN IF currentCount >= c.maxInstances THEN FALSE
       ELSE IF isInScaleUpCooldown(sc, t, c) THEN FALSE
       ELSE IF c.maxRequestsPerInstance = Undefined \/ c.maxRequestsPerInstance = 0 THEN FALSE
       ELSE \* totalRequests / currentCount > maxRequestsPerInstance, currentCount > 0
            currentCount > 0 /\ Sum(healthy) > c.maxRequestsPerInstance * currentCount

\* thresholds that lie above the scale-up ones instead of below
calculateScaleDownThresholdsAbove(c) ==
    LET up == IF c.scaleThreshold # Undefined THEN c.scaleThreshold ELSE 75
    IN [cpu |-> up + 45, memory |-> up + 45, disk |-> up + 45]

calculateScaleDownThresholds(c) ==
    IF hasAllSpecificThresholds(c)
    THEN [cpu |-> IF c.scaleDownThresholdCPU # Undefined
                  THEN c.scaleDownThresholdCPU ELSE c.scaleThesholdCPU - 45,
          memory |-> IF c.scaleDownThresholdMemory # Undefined
                     THEN c.scaleDownThresholdMemory ELSE c.scaleThesholdMemoryMiB - 45,
          disk |-> IF c.scaleDownThresholdDisk # Undefined
                   THEN c.scaleDownThresholdDisk ELSE c.scaleThesholdDiskGB - 45]
    ELSE LET up == IF c.scaleThreshold # Undefined THEN c.scaleThreshold ELSE 75
             down == IF c.scaleDownThreshold # Undefined THEN c.scaleDownThreshold ELSE up - 45
         IN [cpu |-> down, memory |-> down, disk |-> down]

metricsExceedThresholds(rec, th) ==
    \/ rec.current_cpu > th.cpu
    \/ rec.current_memory > th.memory
    \/ rec.current_disk > th.disk

shouldScaleDown(I, sc, t, c) ==
    IF getInstanceCount(I, TRUE) <= c.minInstances THEN FALSE
    ELSE IF isInScaleDownCooldown(sc, t, c) THEN FALSE
    ELSE IF Matching(I, HealthyNotDraining) = {} THEN FALSE
    ELSE \A n \in Matching(I, HealthyNotDraining) :
            ~metricsExceedThresholds(I[n], calculateScaleDownThresholds(c))

\* sort by active_requests (fewer first), then by last_heartbeat (older first)
RemovalOrder(I, s) ==
    \A i \in 1..(Len(s) - 1) :
        \/ I[s[i]].active_requests < I[s[i + 1]].active_requests
        \/ /\ I[s[i]].active_requests = I[s[i + 1]].active_requests
           /\ I[s[i]].last_heartbeat <= I[s[i + 1]].last_heartbeat

\* a slice that forgets its end
TakeAll(s, k) == s

Take(s, k) == SubSeq(s, 1, Min(Len(s), Max(0, k)))

\* the lists selectInstancesForRemoval may return
selectInstancesForRemoval(I, c) ==
    LET currentCount == getInstanceCount(I, TRUE)
        th == calculateScaleDownThresholds(c)
        below == { n \in Matching(I, HealthyNotDraining) : ~metricsExceedThresholds(I[n], th) }
        unhealthyLists == { SelectSeq(s, LAMBDA n : ~I[n].draining) :
                              s \in getInstances(I, [healthy |-> "false", notDraining |-> FALSE,
                                                      belowCapacity |-> Undefined]) }
    IN { Take(u \o (IF currentCount - Len(u) > c.minInstances
                    THEN Take(b, currentCount - Len(u) - c.minInstances)
                    ELSE <<>>),
              currentCount - c.minInstances)
         : u \in unhealthyLists, b \in { x \in Perms(below) : RemovalOrder(I, x) } }

-----------------------------------------------------------------------------
(* InstanceManager *)

\* config.healthCheckRetries ?? 3
healthCheckRetries(c) == IF c.healthCheckRetries = Undefined THEN 3 ELSE c.healthCheckRetries

\* a check that tolerates one failure too many
performHealthCheckOffByOne(I, name, ok, c) ==
    IF ok
    THEN updateHealth(I, name, TRUE, 0)
    ELSE LET newFailures == getHealthCheckFailures(I, name) + 1
         IN updateHealth(I, name, newFailures <= healthCheckRetries(c), newFailures)

\* `ok`: the health endpoint answered 2xx (FALSE: a non-2xx answer or an exception)
performHealthCheck(I, name, ok, c) ==
    IF ok
    THEN updateHealth(I, name, TRUE, 0)
    ELSE LET newFailures == getHealthCheckFailures(I, name) + 1
         IN updateHealth(I, name, newFailures < healthCheckRetries(c), newFailures)

\* a destroy that leaves the record behind
destroyInstanceKeepsRecord(I, name) == I

\* the record is removed whether container.destroy() succeeded or threw
destroyInstance(I, name) == removeInstance(I, name)

\* getState() throws for a container the runtime does not hold
cleanupStaleInstances(I, held) ==
    LET cleaned == { n \in DOMAIN I : n \notin held }
    IN [inst |-> [n \in DOMAIN I \ cleaned |-> I[n]], cleaned |-> cleaned]

\* updateHeartbeat for every listed instance whose container answered
keepAlive(I, names, held, t) ==
    [n \in DOMAIN I |->
        IF n \in names /\ n \in held THEN [I[n] EXCEPT !.last_heartbeat = t] ELSE I[n]]

-----------------------------------------------------------------------------
(* Bounds and configuration of the checked system *)

\* The runs are bounded in three ways: the requests in flight at once, the
\* container ids the runtime hands out (nanoid) over a run, and the time at
\* which the clock stops.  Three sets of bounds are checked: one with
\* concurrent requests, one with a longer clock, one with a larger fleet.
NumReq == 2

MaxNames == 2

MaxNow == 2

LongReq == 1

LongNames == 2

LongNow == 3

WideReq == 1

WideNames == 3

WideNow == 2

Bounds == [reqs |-> NumReq, names |-> MaxNames, now |-> MaxNow]

LongBounds == [reqs |-> LongReq, names |-> LongNames, now |-> LongNow]

WideBounds == [reqs |-> WideReq, names |-> WideNames, now |-> WideNow]

\* what /monitorz may report: an idle container, or one with its cpu high
Samples ==
    { [cpu_usage |-> 0, memory_usage |-> 0, disk_usage |-> 0],
      [cpu_usage |-> 90, memory_usage |-> 0, disk_usage |-> 0] }

\* times are in ticks; minInstances and the thresholds are the defaults
\* (0, 75, and 75 - 45)
SysConfig ==
    [ maxInstances |-> 2, minInstances |-> 0,
      maxRequestsPerInstance |-> 2, capNum |-> 7, capDen |-> 10,
      heartbeatInterval |-> 1,
      scaleThesholdCPU |-> Undefined, scaleThesholdMemoryMiB |-> Undefined,
      scaleThesholdDiskGB |-> Undefined, scaleThreshold |-> 75,
      scaleUpCooldown |-> 2, scaleDownCooldown |-> 2,
      scaleDownThreshold |-> Undefined, scaleDownThresholdCPU |-> Undefined,
      scaleDownThresholdMemory |-> Undefined, scaleDownThresholdDisk |-> Undefined,
      healthCheckRetries |-> 2, drainTimeout |-> 1 ]

-----------------------------------------------------------------------------
(* Controller: construction and request handling *)

\* what a step reports:
\*   "inc"      incrementRequests ran on `name` and returned `prev`;
\*              flag: checkOptimisticScaleUp answered true
\*   "done"     the forward to `name` ended; flag: with a response (not a throw);
\*              prev: the status fetch answers (200 stands for the container's)
\*   "resp"     fetch answered without forwarding; prev: the status (503, 500);
\*              flag: a creation was started (the 503 carries Retry-After: 5)
\*   "metrics"  shouldScaleUpForMetrics ran; flag: its answer, name: the
\*              instance it marked, prev: that instance's earlier crossing time
\*   "scaleUp"  recordScaleUp ran for the new instance `name`;
\*              flag: it was the optimistic scale-up
\*   "createFailed"  a detached creation failed and released its slot;
\*              flag: it was the optimistic scale-up
\*   "drain"    the heartbeat destroyed `name` on its drain timeout, with
\*              `prev` requests in flight
NoEv == [kind |-> "none", name |-> None, flag |-> FALSE, prev |-> None]

NoRet == [op |-> "none", val |-> None]

One(x) == SetToBag({x})

Move(b, from, to) == (b (-) One(from)) (+) One(to)

\* config.drainTimeout ?? 60_000
drainTimeout(c) == IF c.drainTimeout = Undefined THEN 60000 ELSE c.drainTimeout

\* config.heartbeatInterval || 30_000
heartbeatInterval(c) ==
    IF c.heartbeatInterval = Undefined \/ c.heartbeatInterval = 0
    THEN 30000 ELSE c.heartbeatInterval

\* the registry after a warm-up that made k instances
WarmedUp(k) == [n \in 1..k |-> NewRecord(0, TRUE, 0)]

\* construction: migrate, schedule the alarm, warm up (the warm-up stops at
\* the first creation that fails, releasing its slot)
Init ==
    /\ cfg = SysConfig
    /\ \E k \in 0..SysConfig.minInstances :
          /\ instances = WarmedUp(k)
          /\ capacity = [migrate(NoRow, WarmedUp(0), SysConfig.maxInstances)
                            EXCEPT !.current_count = k]
          /\ containers = 1..k
          /\ nextId = k + 1
    /\ scaling = [last_scale_up |-> Null, last_scale_down |-> Null]
    /\ now = 0
    /\ alarm = heartbeatInterval(SysConfig)
    /\ reqs = EmptyBag
    /\ tasks = EmptyBag
    /\ hb = [pc |-> "idle"]
    /\ ev = NoEv
    /\ ret = NoRet

\* fetch, steps 5-7 up to the forward: count the request on `name`, and when
\* it crosses the capacity limit dispatch the optimistic scale-up, which
\* reserves its slot before its first await
Serve(r, name, I, cap) ==
    LET res == incrementRequests(I, name, now, TRUE, 1)
        crossed == checkOptimisticScaleUp(cfg, res.previousRequests)
        slot == tryReserveSlot(cap)
    IN /\ instances' = res.inst
       /\ capacity' = IF crossed THEN slot.cap ELSE cap
       /\ tasks' = IF crossed /\ slot.ok THEN tasks (+) One("optimistic") ELSE tasks
       /\ reqs' = Move(reqs, r, [pc |-> "forward", name |-> name])
       /\ ev' = [kind |-> "inc", name |-> name, flag |-> crossed,
                 prev |-> res.previousRequests]

\* fetch, steps 4-7 with the handle of `name` in hand: serve on it when it is
\* running, else reserve a slot for a replacement (or replace in place)
Attach(r, name, I, cap) ==
    \E running \in BOOLEAN :
       IF running
       THEN Serve(r, name, I, cap)
       ELSE LET slot == tryReserveSlot(cap)
            IN /\ instances' = I
               /\ capacity' = slot.cap
               /\ reqs' = Move(reqs, r, IF slot.ok THEN [pc |-> "replace", name |-> None]
                                         ELSE [pc |-> "replaceInPlace", name |-> name])
               /\ ev' = NoEv
               /\ UNCHANGED tasks

\* a fetch that starts a creation whether or not it got a slot
ReqArriveCreatesAnyway(b) ==
    /\ BagCardinality(reqs) < b.reqs
    /\ \E n \in selectInstance(instances, cfg) :
          IF n = None
          THEN LET slot == tryReserveSlot(capacity)
               IN /\ capacity' = slot.cap
                  /\ tasks' = tasks (+) One("ondemand")
                  /\ ev' = [kind |-> "resp", name |-> None, flag |-> slot.ok, prev |-> 503]
                  /\ UNCHANGED reqs
          ELSE /\ reqs' = reqs (+) One([pc |-> "lookup", name |-> n])
               /\ ev' = NoEv
               /\ UNCHANGED <<capacity, tasks>>
    /\ UNCHANGED <<cfg, instances, scaling, now, alarm, containers, nextId, hb, ret>>

\* fetch, step 2: select; with no instance reserve a slot, start a creation
\* and answer 503
ReqArrive(b) ==
    /\ BagCardinality(reqs) < b.reqs
    /\ \E n \in selectInstance(instances, cfg) :
          IF n = None
          THEN LET slot == tryReserveSlot(capacity)
               IN /\ capacity' = slot.cap
                  /\ tasks' = IF slot.ok THEN tasks (+) One("ondemand") ELSE tasks
                  /\ ev' = [kind |-> "resp", name |-> None, flag |-> slot.ok, prev |-> 503]
                  /\ UNCHANGED reqs
          ELSE /\ reqs' = reqs (+) One([pc |-> "lookup", name |-> n])
               /\ ev' = NoEv
               /\ UNCHANGED <<capacity, tasks>>
    /\ UNCHANGED <<cfg, instances, scaling, now, alarm, containers, nextId, hb, ret>>

\* fetch, steps 3-6: the runtime handle of the selected instance; when the
\* runtime does not hold it: purge, cleanup, sync and one more selection
ReqLookup(r) ==
    /\ r.pc = "lookup"
    /\ IF r.name \in containers
       THEN Attach(r, r.name, instances, capacity)
       ELSE LET cl == cleanupStaleInstances(removeInstance(instances, r.name), containers)
                cap == IF cl.inst # instances THEN syncCapacity(capacity, cl.inst)
                       ELSE capacity
            IN \E n \in selectInstance(cl.inst, cfg) :
                  IF n = None
                  THEN /\ instances' = cl.inst
                       /\ capacity' = cap
                       /\ reqs' = reqs (-) One(r)
                       /\ ev' = [kind |-> "resp", name |-> None, flag |-> FALSE, prev |-> 503]
                       /\ UNCHANGED tasks
                  ELSE Attach(r, n, cl.inst, cap)
    /\ UNCHANGED <<cfg, scaling, now, alarm, containers, nextId, hb, ret>>

\* fetch, step 4 with a slot: the replacement's creation ends
ReqReplaceDone(r, b) ==
    /\ r.pc = "replace"
    /\ \/ /\ nextId <= b.names
          /\ containers' = containers \cup {nextId}
          /\ nextId' = nextId + 1
          /\ Serve(r, nextId, instances, capacity)
       \/ /\ capacity' = releaseSlot(capacity)
          /\ reqs' = reqs (-) One(r)
          /\ ev' = [kind |-> "resp", name |-> None, flag |-> FALSE, prev |-> 500]
          /\ UNCHANGED <<instances, tasks, containers, nextId>>
    /\ UNCHANGED <<cfg, scaling, now, alarm, hb, ret>>

\* fetch, step 4 without a slot: replaceInstance destroys the old instance
\* and creates another
ReqReplaceInPlace(r, b) ==
    /\ r.pc = "replaceInPlace"
    /\ \E destroyed \in BOOLEAN :
          LET held == IF destroyed THEN containers \ {r.name} ELSE containers
              I1 == destroyInstance(instances, r.name)
          IN \/ /\ nextId <= b.names
                /\ containers' = held \cup {nextId}
                /\ nextId' = nextId + 1
                /\ Serve(r, nextId, I1, capacity)
             \/ /\ containers' = held
                /\ instances' = I1
                /\ reqs' = reqs (-) One(r)
                /\ ev' = [kind |-> "resp", name |-> r.name, flag |-> FALSE, prev |-> 500]
                /\ UNCHANGED <<capacity, tasks, nextId>>
    /\ UNCHANGED <<cfg, scaling, now, alarm, hb, ret>>

\* a forward whose exception leaves fetch: no response is made
ReqForwardDoneLetsThrowOut(r) ==
    /\ r.pc = "forward"
    /\ \E ok \in BOOLEAN :
          /\ (ok => r.name \in containers)
          /\ ev' = [kind |-> "done", name |-> r.name, flag |-> ok,
                    prev |-> IF ok THEN 200 ELSE None]
    /\ instances' = decrementRequests(instances, r.name)
    /\ reqs' = reqs (-) One(r)
    /\ UNCHANGED <<cfg, capacity, scaling, now, alarm, containers, nextId, tasks, hb, ret>>

\* fetch, step 7: the forward returns a response or throws; either way the
\* decrement is dispatched and runs
ReqForwardDone(r) ==
    /\ r.pc = "forward"
    /\ \E ok \in BOOLEAN :
          /\ (ok => r.name \in containers)
          /\ ev' = [kind |-> "done", name |-> r.name, flag |-> ok,
                    prev |-> IF ok THEN 200 ELSE 500]
    /\ instances' = decrementRequests(instances, r.name)
    /\ reqs' = reqs (-) One(r)
    /\ UNCHANGED <<cfg, capacity, scaling, now, alarm, containers, nextId, tasks, hb, ret>>

\* a detached creation ends: create -> track -> recordScaleUp (the optimistic
\* one), or the slot is released
TaskDone(k, b) ==
    /\ tasks' = tasks (-) One(k)
    /\ \/ /\ nextId <= b.names
          /\ containers' = containers \cup {nextId}
          /\ nextId' = nextId + 1
          /\ instances' = recordInstance(instances, nextId, 0, TRUE, now).inst
          /\ scaling' = IF k = "optimistic" THEN recordScaleUp(scaling, now) ELSE scaling
          /\ ev' = IF k = "optimistic"
                   THEN [kind |-> "scaleUp", name |-> nextId, flag |-> TRUE, prev |-> None]
                   ELSE NoEv
          /\ UNCHANGED capacity
       \/ /\ capacity' = releaseSlot(capacity)
          /\ ev' = [kind |-> "createFailed", name |-> None, flag |-> k = "optimistic",
                    prev |-> None]
          /\ UNCHANGED <<instances, scaling, containers, nextId>>
    /\ UNCHANGED <<cfg, now, alarm, reqs, hb, ret>>

-----------------------------------------------------------------------------
(* Controller: the heartbeat (alarm) *)

\* what a health check and the metrics fetch that follows it may leave of
\* one instance: the check fails; it passes and /monitorz fails; it passes
\* and a sample is stored
CheckOne(I, n, held, c) ==
    {performHealthCheck(I, n, FALSE, c)}
    \cup (IF n \in held
          THEN {performHealthCheck(I, n, TRUE, c)}
               \cup { updateMetrics(performHealthCheck(I, n, TRUE, c), n,
                                    m.cpu_usage, m.memory_usage, m.disk_usage) : m \in Samples }
          ELSE {})

RECURSIVE CheckAll(_, _, _, _)
CheckAll(Is, names, held, c) ==
    IF names = {} THEN Is
    ELSE LET n == CHOOSE x \in names : TRUE
         IN CheckAll(UNION { CheckOne(I, n, held, c) : I \in Is }, names \ {n}, held, c)

\* a drain pass that does not wait
drainDueAtOnce(rec, t, c) == TRUE

\* drainInstance on a draining record: it is destroyed once it is idle or
\* its drain timeout has passed
drainDue(rec, t, c) ==
    \/ rec.active_requests = 0
    \/ (rec.draining_since # Null /\ t - rec.draining_since >= drainTimeout(c))

RECURSIVE RemoveAll(_, _)
RemoveAll(I, names) ==
    IF names = {} THEN I
    ELSE LET n == CHOOSE x \in names : TRUE
         IN RemoveAll(destroyInstance(I, n), names \ {n})

\* drainInstance on each instance of the list: none is draining yet
RECURSIVE MarkAll(_, _, _)
MarkAll(I, s, t) ==
    IF Len(s) = 0 THEN I ELSE MarkAll(markDraining(I, Head(s), t), Tail(s), t)

\* steps 1-3: stale cleanup (and sync when something was cleaned), keep-alive
\* of the healthy non-draining instances, health check and metrics of each
HbStart ==
    /\ hb.pc = "idle"
    /\ alarm # Null
    /\ now >= alarm
    /\ LET cl == cleanupStaleInstances(instances, containers)
           ka == keepAlive(cl.inst, Matching(cl.inst, HealthyNotDraining), containers, now)
       IN /\ capacity' = IF cl.cleaned # {} THEN syncCapacity(capacity, cl.inst) ELSE capacity
          /\ instances' \in CheckAll({ka}, DOMAIN ka, containers, cfg)
    /\ alarm' = Null
    /\ hb' = [pc |-> "scaleUp"]
    /\ ev' = NoEv
    /\ UNCHANGED <<cfg, scaling, now, containers, nextId, reqs, tasks, ret>>

\* step 4: the metric scale-up decision and its reservation
HbScaleUp ==
    /\ hb.pc = "scaleUp"
    /\ \E o \in shouldScaleUpForMetrics(instances, scaling, now, cfg) :
          LET slot == tryReserveSlot(capacity)
          IN /\ instances' = o.inst
             /\ capacity' = IF o.result THEN slot.cap ELSE capacity
             /\ hb' = [pc |-> IF o.result /\ slot.ok THEN "creating" ELSE "scaleDown"]
             /\ ev' = [kind |-> "metrics", name |-> o.name, flag |-> o.result,
                       prev |-> IF o.result THEN instances[o.name].threshold_crossed_at
                                ELSE None]
    /\ UNCHANGED <<cfg, scaling, now, alarm, containers, nextId, reqs, tasks, ret>>

\* step 4: the creation ends: track and recordScaleUp, or release the slot
HbCreateDone(b) ==
    /\ hb.pc = "creating"
    /\ \/ /\ nextId <= b.names
          /\ containers' = containers \cup {nextId}
          /\ nextId' = nextId + 1
          /\ instances' = recordInstance(instances, nextId, 0, TRUE, now).inst
          /\ scaling' = recordScaleUp(scaling, now)
          /\ ev' = [kind |-> "scaleUp", name |-> nextId, flag |-> FALSE, prev |-> None]
          /\ UNCHANGED capacity
       \/ /\ capacity' = releaseSlot(capacity)
          /\ ev' = NoEv
          /\ UNCHANGED <<instances, scaling, containers, nextId>>
    /\ hb' = [pc |-> "scaleDown"]
    /\ UNCHANGED <<cfg, now, alarm, reqs, tasks, ret>>

\* a handler that a throwing container.destroy() leaves before the next
\* alarm is scheduled
HbScaleDownThrows ==
    /\ hb.pc = "scaleDown"
    /\ \E s \in (IF shouldScaleDown(instances, scaling, now, cfg)
                 THEN selectInstancesForRemoval(instances, cfg) ELSE {<<>>}) :
          LET marked == MarkAll(instances, s, now)
              due == { n \in getDrainingInstances(marked) : drainDue(marked[n], now, cfg) }
          IN /\ scaling' = IF Len(s) > 0 THEN recordScaleDown(scaling, now) ELSE scaling
             /\ instances' = RemoveAll(marked, due)
             /\ \E gone \in SUBSET (due \cap containers) :
                   /\ containers' = containers \ gone
                   /\ alarm' = IF gone = due \cap containers
                               THEN now + heartbeatInterval(cfg) ELSE alarm
             /\ ev' = NoEv
    /\ hb' = [pc |-> "idle"]
    /\ UNCHANGED <<cfg, capacity, now, nextId, reqs, tasks, ret>>

\* steps 5-7: the scale-down decision (the chosen instances start draining),
\* then drainInstance on every draining instance (container.destroy() may
\* throw and leave its container), then the next alarm
HbScaleDown ==
    /\ hb.pc = "scaleDown"
    /\ \E s \in (IF shouldScaleDown(instances, scaling, now, cfg)
                 THEN selectInstancesForRemoval(instances, cfg) ELSE {<<>>}) :
          LET marked == MarkAll(instances, s, now)
              due == { n \in getDrainingInstances(marked) : drainDue(marked[n], now, cfg) }
              forced == { n \in due : marked[n].active_requests > 0 }
          IN /\ scaling' = IF Len(s) > 0 THEN recordScaleDown(scaling, now) ELSE scaling
             /\ instances' = RemoveAll(marked, due)
             /\ \E gone \in SUBSET (due \cap containers) : containers' = containers \ gone
             /\ ev' \in IF forced = {} THEN {NoEv}
                        ELSE { [kind |-> "drain", name |-> n, flag |-> TRUE,
                                prev |-> marked[n].active_requests] : n \in forced }
    /\ alarm' = now + heartbeatInterval(cfg)
    /\ hb' = [pc |-> "idle"]
    /\ UNCHANGED <<cfg, capacity, now, nextId, reqs, tasks, ret>>

-----------------------------------------------------------------------------
(* Environment *)

Tick(b) ==
    /\ now < b.now
    /\ now' = now + 1
    /\ ev' = NoEv
    /\ UNCHANGED <<cfg, instances, capacity, scaling, alarm, containers, nextId,
                   reqs, tasks, hb, ret>>

\* the runtime loses a container (crash, eviction)
ContainerDies ==
    /\ \E n \in containers : containers' = containers \ {n}
    /\ ev' = NoEv
    /\ UNCHANGED <<cfg, instances, capacity, scaling, now, alarm, nextId,
                   reqs, tasks, hb, ret>>

\* a step of the system within the bounds b
Step(b) ==
    \/ ReqArrive(b)
    \/ \E r \in BagToSet(reqs) : ReqLookup(r)
    \/ \E r \in BagToSet(reqs) : ReqReplaceDone(r, b)
    \/ \E r \in BagToSet(reqs) : ReqReplaceInPlace(r, b)
    \/ \E r \in BagToSet(reqs) : ReqForwardDone(r)
    \/ \E k \in BagToSet(tasks) : TaskDone(k, b)
    \/ HbStart
    \/ HbScaleUp
    \/ HbCreateDone(b)
    \/ HbScaleDown
    \/ Tick(b)
    \/ ContainerDies

Next == Step(Bounds)

Spec == Init /\ [][Next]_vars

NextLong == Step(LongBounds)

SpecLong == Init /\ [][NextLong]_vars

NextWide == Step(WideBounds)

SpecWide == Init /\ [][NextWide]_vars

\* one request at a time, two names, one heartbeat: the progress of a
\* detached creation
LiveReq == 1

LiveNames == 2

LiveNow == 1

LiveBounds == [reqs |-> LiveReq, names |-> LiveNames, now |-> LiveNow]

NextLive == Step(LiveBounds)

\* the creation an optimistic scale-up awaits settles: startAndWaitForPorts
\* resolves or rejects, and waitUntil keeps the task running until then
OptimisticSettles ==
    \E k \in BagToSet(tasks) : k = "optimistic" /\ TaskDone(k, LiveBounds)

SpecLive == Init /\ [][NextLive]_vars /\ WF_vars(OptimisticSettles)

-----------------------------------------------------------------------------
(* The heartbeat on its own, for as long as the alarm keeps firing *)

\* container ids handed out over a run without traffic
SickNames == 2

\* the clock reading from which time is kept as ages: it exceeds every
\* duration the code compares with (cooldowns 2, drainTimeout 1)
SickNow == 3

\* instances the warm-up left
SickFleet == 1

SickBounds == [reqs |-> 0, names |-> SickNames, now |-> SickNow]

SickConfigs == { [SysConfig EXCEPT !.minInstances = lo] : lo \in 0..1 }

InitSick ==
    /\ cfg \in SickConfigs
    /\ \E k \in 1..SickFleet :
          /\ instances = WarmedUp(k)
          /\ capacity = [current_count |-> k, max_count |-> cfg.maxInstances]
          /\ containers = 1..k
          /\ nextId = k + 1
    /\ scaling = [last_scale_up |-> Null, last_scale_down |-> Null]
    /\ now = 0
    /\ alarm = heartbeatInterval(cfg)
    /\ reqs = EmptyBag
    /\ tasks = EmptyBag
    /\ hb = [pc |-> "idle"]
    /\ ev = NoEv
    /\ ret = NoRet

\* a timestamp one tick further in the past; the code reads timestamps only
\* as differences from Date.now(), and every age of SickNow or more compares
\* alike
Older(t) == IF t = Null THEN Null ELSE Max(0, t - 1)

\* a tick once the clock reads SickNow: the reading stays and every stored
\* time moves one tick into the past.  The count of failed health checks is
\* kept up to healthCheckRetries: the code only tests whether count + 1 is
\* below it.
Elapse ==
    /\ now = SickNow
    /\ instances' = [n \in DOMAIN instances |->
                        [instances[n] EXCEPT !.last_heartbeat = Older(@),
                                             !.draining_since = Older(@),
                                             !.threshold_crossed_at = Older(@),
                                             !.health_check_failures =
                                                 Min(@, healthCheckRetries(cfg))]]
    /\ scaling' = [last_scale_up |-> Older(scaling.last_scale_up),
                   last_scale_down |-> Older(scaling.last_scale_down)]
    /\ alarm' = Older(alarm)
    /\ ev' = NoEv
    /\ UNCHANGED <<cfg, capacity, now, containers, nextId, reqs, tasks, hb, ret>>

TimePasses == Tick(SickBounds) \/ Elapse

NextSick ==
    \/ HbStart
    \/ HbScaleUp
    \/ HbCreateDone(SickBounds)
    \/ HbScaleDown
    \/ Tick(SickBounds)
    \/ Elapse
    \/ ContainerDies

\* time passes, the alarm fires when it is due, and every step of the alarm
\* handler completes
SpecSick ==
    /\ InitSick
    /\ [][NextSick]_vars
    /\ WF_vars(TimePasses)
    /\ WF_vars(HbStart)
    /\ WF_vars(HbScaleUp)
    /\ WF_vars(HbCreateDone(SickBounds))
    /\ WF_vars(HbScaleDown)

-----------------------------------------------------------------------------
(* The registry on its own: any sequence of its operations *)

\* names the registry-level runs insert
RgNames == 3

\* active_requests a registry-level run lets a record reach
RgMaxActive == 2

InitRegistry ==
    /\ cfg = SysConfig
    /\ instances = WarmedUp(0)
    /\ capacity = migrate(NoRow, WarmedUp(0), SysConfig.maxInstances)
    /\ scaling = [last_scale_up |-> Null, last_scale_down |-> Null]
    /\ now = 0
    /\ alarm = Null
    /\ containers = {}
    /\ nextId = 1
    /\ reqs = EmptyBag
    /\ tasks = EmptyBag
    /\ hb = [pc |-> "idle"]
    /\ ev = NoEv
    /\ ret = NoRet

\* `ret` names the operation a step applied and the record it was applied to
RegistryFrame == UNCHANGED <<cfg, scaling, now, alarm, containers, nextId, reqs, tasks, hb, ev>>

RegMigrate ==
    /\ capacity' = migrate(capacity, instances, cfg.maxInstances)
    /\ ret' = [op |-> "migrate", val |-> None]
    /\ UNCHANGED instances
    /\ RegistryFrame

RegRecordInstance ==
    /\ \E n \in 1..RgNames, k \in 0..1, healthy \in BOOLEAN :
          /\ instances' = recordInstance(instances, n, k, healthy, now).inst
          /\ instances'[n].active_requests <= RgMaxActive
          /\ ret' = [op |-> "recordInstance", val |-> n]
    /\ UNCHANGED capacity
    /\ RegistryFrame

RegRemoveInstance ==
    /\ \E n \in DOMAIN instances :
          /\ instances' = removeInstance(instances, n)
          /\ ret' = [op |-> "removeInstance", val |-> n]
    /\ UNCHANGED capacity
    /\ RegistryFrame

RegDecrementRequests ==
    /\ \E n \in 1..RgNames :
          /\ instances' = decrementRequests(instances, n)
          /\ ret' = [op |-> "decrementRequests", val |-> n,
                     prev |-> IF n \in DOMAIN instances
                              THEN instances[n].active_requests ELSE None]
    /\ UNCHANGED capacity
    /\ RegistryFrame

RegTryReserveSlot ==
    /\ capacity' = tryReserveSlot(capacity).cap
    /\ ret' = [op |-> "tryReserveSlot", val |-> IF tryReserveSlot(capacity).ok THEN 1 ELSE 0]
    /\ UNCHANGED instances
    /\ RegistryFrame

RegReleaseSlot ==
    /\ capacity' = releaseSlot(capacity)
    /\ ret' = [op |-> "releaseSlot", val |-> None]
    /\ UNCHANGED instances
    /\ RegistryFrame

RegSyncCapacity ==
    /\ capacity' = syncCapacity(capacity, instances)
    /\ ret' = [op |-> "syncCapacity", val |-> None]
    /\ UNCHANGED instances
    /\ RegistryFrame

NextRegistry ==
    \/ RegMigrate
    \/ RegRecordInstance
    \/ RegRemoveInstance
    \/ RegDecrementRequests
    \/ RegTryReserveSlot
    \/ RegReleaseSlot
    \/ RegSyncCapacity

SpecRegistry == InitRegistry /\ [][NextRegistry]_vars

-----------------------------------------------------------------------------
(* The Router on its own: selectInstance on every small registry *)

\* names in the registries the Router is applied to
RtNames == 2

\* largest active_requests in them
RtMaxActive == 2

\* latest last_heartbeat in them
RtMaxTime == 1

RtRecords ==
    { [NewRecord(a, h, t) EXCEPT !.draining = d, !.draining_since = IF d THEN 0 ELSE Null] :
        a \in 0..RtMaxActive, h \in BOOLEAN, t \in 0..RtMaxTime, d \in BOOLEAN }

RtRegistries == UNION { [S -> RtRecords] : S \in SUBSET (1..RtNames) }

InitRouter ==
    /\ cfg \in { [SysConfig EXCEPT !.maxRequestsPerInstance = m] : m \in {Undefined, 1, 2} }
    /\ instances \in RtRegistries
    /\ capacity = [current_count |-> 0, max_count |-> SysConfig.maxInstances]
    /\ scaling = [last_scale_up |-> Null, last_scale_down |-> Null]
    /\ now = RtMaxTime
    /\ alarm = Null
    /\ containers = {}
    /\ nextId = 1
    /\ reqs = EmptyBag
    /\ tasks = EmptyBag
    /\ hb = [pc |-> "idle"]
    /\ ev = NoEv
    /\ ret = NoRet

RouterSelect ==
    /\ \E n \in selectInstance(instances, cfg) : ret' = [op |-> "selectInstance", val |-> n]
    /\ UNCHANGED <<cfg, instances, capacity, scaling, now, alarm, containers, nextId,
                   reqs, tasks, hb, ev>>

NextRouter == RouterSelect

SpecRouter == InitRouter /\ [][NextRouter]_vars

-----------------------------------------------------------------------------
(* The Router's crossing test on its own *)

\* largest maxRequestsPerInstance the crossing test is applied to
CrMaxPerInstance == 5

\* largest previousActiveRequests it is applied to
CrMaxPrev == 5

\* scaleUpCapacityThreshold in tenths: 0, 0.5, the default 0.7, 1
CrTenths == {0, 5, 7, 10}

InitCrossing ==
    /\ cfg \in { [SysConfig EXCEPT !.maxRequestsPerInstance = m, !.capNum = t, !.capDen = 10] :
                    m \in {Undefined} \cup 0..CrMaxPerInstance, t \in CrTenths }
    /\ instances = WarmedUp(0)
    /\ capacity = [current_count |-> 0, max_count |-> SysConfig.maxInstances]
    /\ scaling = [last_scale_up |-> Null, last_scale_down |-> Null]
    /\ now = 0
    /\ alarm = Null
    /\ containers = {}
    /\ nextId = 1
    /\ reqs = EmptyBag
    /\ tasks = EmptyBag
    /\ hb = [pc |-> "idle"]
    /\ ev = NoEv
    /\ ret = NoRet

RouterCheckOptimistic ==
    /\ \E p \in 0..CrMaxPrev :
          ret' = [op |-> "checkOptimisticScaleUp", val |-> checkOptimisticScaleUp(cfg, p),
                  prev |-> p]
    /\ UNCHANGED <<cfg, instances, capacity, scaling, now, alarm, containers, nextId,
                   reqs, tasks, hb, ev>>

NextCrossing == RouterCheckOptimistic

SpecCrossing == InitCrossing /\ [][NextCrossing]_vars

-----------------------------------------------------------------------------
(* The Scaler on its own: its decisions on every small registry *)

\* names in the registries the Scaler is applied to
ScNames == 2

\* largest minInstances configured
ScMaxMin == 2

\* (cpu, memory) pairs an instance may report; disk stays 0
ScMetrics == { <<0, 0>>, <<40, 0>>, <<90, 0>>, <<0, 90>> }

ScRecords ==
    { [NewRecord(a, h, 0) EXCEPT !.draining = d,
                                 !.draining_since = IF d THEN 0 ELSE Null,
                                 !.current_cpu = m[1],
                                 !.current_memory = m[2],
                                 !.threshold_crossed_at = x] :
        a \in {0, 3}, h \in BOOLEAN, d \in BOOLEAN, m \in ScMetrics, x \in {Null, 0} }

ScRegistries == UNION { [S -> ScRecords] : S \in SUBSET (1..ScNames) }

\* threshold configurations: the general threshold; all three specific
\* ones; CPU only, with and without the general one; none at all
ScThresholds ==
    { [cpu |-> Undefined, memory |-> Undefined, disk |-> Undefined, general |-> 75],
      [cpu |-> 50, memory |-> 95, disk |-> 95, general |-> Undefined],
      [cpu |-> 50, memory |-> Undefined, disk |-> Undefined, general |-> 75],
      [cpu |-> 50, memory |-> Undefined, disk |-> Undefined, general |-> Undefined],
      [cpu |-> Undefined, memory |-> Undefined, disk |-> Undefined, general |-> Undefined] }

ScConfigs ==
    { [SysConfig EXCEPT !.minInstances = k,
                        !.scaleThesholdCPU = th.cpu,
                        !.scaleThesholdMemoryMiB = th.memory,
                        !.scaleThesholdDiskGB = th.disk,
                        !.scaleThreshold = th.general] :
        k \in 0..ScMaxMin, th \in ScThresholds }

\* the last scale-up and scale-down with the time of the call: nothing
\* recorded, inside either cooldown, outside both
ScTimes ==
    { [up |-> Null, down |-> Null, now |-> 2],
      [up |-> 1, down |-> Null, now |-> 2],
      [up |-> Null, down |-> 1, now |-> 2],
      [up |-> 0, down |-> 0, now |-> 2] }

InitScaler ==
    /\ cfg \in ScConfigs
    /\ instances \in ScRegistries
    /\ \E t \in ScTimes :
          /\ scaling = [last_scale_up |-> t.up, last_scale_down |-> t.down]
          /\ now = t.now
    /\ capacity = [current_count |-> Cardinality(DOMAIN instances),
                   max_count |-> SysConfig.maxInstances]
    /\ alarm = Null
    /\ containers = {}
    /\ nextId = 1
    /\ reqs = EmptyBag
    /\ tasks = EmptyBag
    /\ hb = [pc |-> "idle"]
    /\ ev = NoEv
    /\ ret = NoRet

ScalerFrame == UNCHANGED <<cfg, capacity, scaling, now, alarm, containers, nextId,
                           reqs, tasks, hb, ev>>

ScalerShouldScaleDown ==
    /\ ret.op = "none"
    /\ ret' = [op |-> "shouldScaleDown", val |-> shouldScaleDown(instances, scaling, now, cfg)]
    /\ UNCHANGED instances
    /\ ScalerFrame

ScalerSelectInstancesForRemoval ==
    /\ ret.op = "none"
    /\ \E s \in selectInstancesForRemoval(instances, cfg) :
          ret' = [op |-> "selectInstancesForRemoval", val |-> s]
    /\ UNCHANGED instances
    /\ ScalerFrame

\* `before` keeps the registry the call read
ScalerShouldScaleUpForMetrics ==
    /\ ret.op = "none"
    /\ \E o \in shouldScaleUpForMetrics(instances, scaling, now, cfg) :
          /\ instances' = o.inst
          /\ ret' = [op |-> "shouldScaleUpForMetrics", val |-> o.result,
                     name |-> o.name, before |-> instances]
    /\ ScalerFrame

ScalerShouldScaleUpForRequests ==
    /\ ret.op = "none"
    /\ ret' = [op |-> "shouldScaleUpForRequests",
               val |-> shouldScaleUpForRequests(instances, scaling, now, cfg)]
    /\ UNCHANGED instances
    /\ ScalerFrame

NextScaler ==
    \/ ScalerShouldScaleDown
    \/ ScalerSelectInstancesForRemoval
    \/ ScalerShouldScaleUpForMetrics
    \/ ScalerShouldScaleUpForRequests

SpecScaler == InitScaler /\ [][NextScaler]_vars

-----------------------------------------------------------------------------
(* The Scaler's request rule on its own *)

\* names in the registries the request rule is applied to
AvNames == 2

\* largest active_requests in them
AvMaxActive == 3

\* largest maxInstances configured
AvMaxInstances == 3

AvRecords ==
    { [NewRecord(a, h, 0) EXCEPT !.draining = d, !.draining_since = IF d THEN 0 ELSE Null] :
        a \in 0..AvMaxActive, h \in BOOLEAN, d \in BOOLEAN }

AvRegistries == UNION { [S -> AvRecords] : S \in SUBSET (1..AvNames) }

AvConfigs ==
    { [SysConfig EXCEPT !.maxInstances = hi, !.maxRequestsPerInstance = m] :
        hi \in 2..AvMaxInstances, m \in {Undefined, 1, 2} }

\* the last scale-up is inside the cooldown (1) or there was none
InitAverage ==
    /\ cfg \in AvConfigs
    /\ instances \in AvRegistries
    /\ scaling \in { [last_scale_up |-> u, last_scale_down |-> Null] : u \in {Null, 1} }
    /\ now = 2
    /\ capacity = [current_count |-> Cardinality(DOMAIN instances),
                   max_count |-> cfg.maxInstances]
    /\ alarm = Null
    /\ containers = {}
    /\ nextId = 1
    /\ reqs = EmptyBag
    /\ tasks = EmptyBag
    /\ hb = [pc |-> "idle"]
    /\ ev = NoEv
    /\ ret = NoRet

AverageShouldScaleUpForRequests ==
    /\ ret.op = "none"
    /\ ret' = [op |-> "shouldScaleUpForRequests",
               val |-> shouldScaleUpForRequests(instances, scaling, now, cfg)]
    /\ UNCHANGED <<cfg, instances, capacity, scaling, now, alarm, containers, nextId,
                   reqs, tasks, hb, ev>>

NextAverage == AverageShouldScaleUpForRequests

SpecAverage == InitAverage /\ [][NextAverage]_vars

-----------------------------------------------------------------------------
(* The InstanceManager on its own: health checks and destroys on small registries *)

\* names in the registries the InstanceManager is applied to
MgNames == 2

\* operations applied in one behaviour
MgMaxSteps == 4

\* healthCheckRetries as configured: left out (3 applies), 1 or 2
MgRetries == { Undefined, 1, 2 }

MgRegistries ==
    UNION { [S -> { NewRecord(0, h, 0) : h \in BOOLEAN }] : S \in SUBSET (1..MgNames) }

\* ret.fails[n]: the failed checks of n in a row since its record was
\* created or its last successful check; ret.steps: operations applied
InitManager ==
    /\ \E k \in MgRetries : cfg = [SysConfig EXCEPT !.healthCheckRetries = k]
    /\ instances \in MgRegistries
    /\ containers \in SUBSET (1..MgNames)
    /\ capacity = [current_count |-> Cardinality(DOMAIN instances),
                   max_count |-> SysConfig.maxInstances]
    /\ scaling = [last_scale_up |-> Null, last_scale_down |-> Null]
    /\ now = 0
    /\ alarm = Null
    /\ nextId = 1
    /\ reqs = EmptyBag
    /\ tasks = EmptyBag
    /\ hb = [pc |-> "idle"]
    /\ ev = NoEv
    /\ ret = [op |-> "none", val |-> None, fails |-> [n \in 1..MgNames |-> 0], steps |-> 0]

ManagerFrame == UNCHANGED <<cfg, capacity, scaling, now, alarm, nextId, reqs, tasks, hb, ev>>

\* performHealthCheck(container, name); ok: the endpoint answered 2xx
MgrPerformHealthCheck ==
    /\ ret.steps < MgMaxSteps
    /\ \E n \in 1..MgNames, ok \in BOOLEAN :
          /\ instances' = performHealthCheck(instances, n, ok, cfg)
          /\ ret' = [op |-> "performHealthCheck", val |-> n, ok |-> ok, result |-> ok,
                     before |-> instances,
                     fails |-> [ret.fails EXCEPT ![n] = IF ok \/ n \notin DOMAIN instances
                                                        THEN 0 ELSE @ + 1],
                     steps |-> ret.steps + 1]
    /\ UNCHANGED containers
    /\ ManagerFrame

\* destroyInstance(name); ok: container.destroy() succeeded (FALSE: it threw);
\* raised: destroyInstance let an exception out
MgrDestroyInstance ==
    /\ ret.steps < MgMaxSteps
    /\ \E n \in 1..MgNames, ok \in BOOLEAN :
          /\ instances' = destroyInstance(instances, n)
          /\ containers' = IF ok THEN containers \ {n} ELSE containers
          /\ ret' = [op |-> "destroyInstance", val |-> n, ok |-> ok, raised |-> FALSE,
                     before |-> instances,
                     fails |-> [ret.fails EXCEPT ![n] = 0],
                     steps |-> ret.steps + 1]
    /\ ManagerFrame

\* the registry's upsert (recordInstance) writes healthy and leaves
\* health_check_failures as it is
MgrRecordInstance ==
    /\ ret.steps < MgMaxSteps
    /\ \E n \in 1..MgNames, h \in BOOLEAN :
          /\ instances' = recordInstance(instances, n, 0, h, now).inst
          /\ ret' = [op |-> "recordInstance", val |-> n, ok |-> h,
                     before |-> instances,
                     fails |-> ret.fails,
                     steps |-> ret.steps + 1]
    /\ UNCHANGED containers
    /\ ManagerFrame

NextManager ==
    \/ MgrPerformHealthCheck
    \/ MgrDestroyInstance
    \/ MgrRecordInstance

SpecManager == InitManager /\ [][NextManager]_vars

-----------------------------------------------------------------------------
(* Laws of the registry: compositions of its operations on every small store *)

\* names in the stores
LwNames == 2

\* largest active_requests a stored record holds, and largest k recorded
LwMaxActive == 2

\* max_count stored, and the largest maxInstances migrate is called with
LwMaxCount == 2

LwRecords ==
    { [NewRecord(a, h, 0) EXCEPT !.draining = d, !.draining_since = IF d THEN 0 ELSE Null] :
        a \in 0..LwMaxActive, h \in BOOLEAN, d \in BOOLEAN }

LwRegistries == UNION { [S -> LwRecords] : S \in SUBSET (1..LwNames) }

\* the capacity row: missing (store not migrated yet) or any count up to max_count
LwCapacities ==
    {NoRow} \cup { [current_count |-> k, max_count |-> LwMaxCount] : k \in 0..LwMaxCount }

\* k times decrementRequests(name)
RECURSIVE decrementTimes(_, _, _)
decrementTimes(I, name, k) ==
    IF k <= 0 THEN I ELSE decrementTimes(decrementRequests(I, name), name, k - 1)

\* a store that is not migrated yet holds no record
InitLaws ==
    /\ cfg = SysConfig
    /\ capacity \in LwCapacities
    /\ instances \in IF capacity = NoRow THEN {WarmedUp(0)} ELSE LwRegistries
    /\ \E u \in {Null, 1}, d \in {Null, 1} :
          /\ scaling = [last_scale_up |-> u, last_scale_down |-> d]
          /\ capacity = NoRow => (u = Null /\ d = Null)
    /\ now = 2
    /\ alarm = Null
    /\ containers = {}
    /\ nextId = 1
    /\ reqs = EmptyBag
    /\ tasks = EmptyBag
    /\ hb = [pc |-> "idle"]
    /\ ev = NoEv
    /\ ret = NoRet

LawsFrame == UNCHANGED <<cfg, now, alarm, containers, nextId, reqs, tasks, hb, ev>>

\* recordInstance(name, k), then k times decrementRequests(name)
LawRecordThenDecrement ==
    /\ ret.op = "none"
    /\ capacity # NoRow
    /\ \E n \in 1..LwNames, k \in 0..LwMaxActive, healthy \in BOOLEAN :
          LET rec == recordInstance(instances, n, k, healthy, now)
          IN /\ instances' = decrementTimes(rec.inst, n, k)
             /\ ret' = [op |-> "recordThenDecrement", val |-> n, k |-> k,
                        before |-> instances, mid |-> rec.inst,
                        previousRequests |-> rec.previousRequests]
    /\ UNCHANGED <<capacity, scaling>>
    /\ LawsFrame

\* tryReserveSlot(), then releaseSlot()
LawReserveThenRelease ==
    /\ ret.op = "none"
    /\ capacity # NoRow
    /\ LET slot == tryReserveSlot(capacity)
       IN /\ capacity' = releaseSlot(slot.cap)
          /\ ret' = [op |-> "reserveThenRelease", val |-> IF slot.ok THEN 1 ELSE 0,
                     before |-> capacity, mid |-> slot.cap]
    /\ UNCHANGED <<instances, scaling>>
    /\ LawsFrame

\* migrate(m1), then migrate(m2) on the store it leaves; the tables and the
\* scaling_state row are made only when missing and never written otherwise
LawMigrateTwice ==
    /\ ret.op = "none"
    /\ \E m1 \in 1..LwMaxCount, m2 \in 1..LwMaxCount :
          LET first == migrate(capacity, instances, m1)
          IN /\ capacity' = migrate(first, instances, m2)
             /\ ret' = [op |-> "migrateTwice", val |-> m2, before |-> capacity, mid |-> first]
    /\ UNCHANGED <<instances, scaling>>
    /\ LawsFrame

NextLaws ==
    \/ LawRecordThenDecrement
    \/ LawReserveThenRelease
    \/ LawMigrateTwice

SpecLaws == InitLaws /\ [][NextLaws]_vars

-----------------------------------------------------------------------------
(* Initialization: the Controller is constructed on a fresh or a kept store *)

\* records a kept store may hold
BtStored == 2

\* largest minInstances and maxInstances configured
BtMaxMin == 2

\* the clock may advance this far while the warm-up awaits its creations
BtMaxNow == 1

BtConfigs ==
    { [SysConfig EXCEPT !.minInstances = lo, !.maxInstances = hi] :
        lo \in 0..BtMaxMin, hi \in 1..BtMaxMin }

\* Before construction: a fresh store (no tables), or the store of an earlier
\* run: its records, of which the runtime still holds some containers, and
\* its counter, which includes a slot reserved by a creation the earlier run
\* did not finish and the limit of the earlier run's configuration (the same
\* as this run's or another).  hb is the position of the initialization.
InitBoot ==
    /\ cfg \in BtConfigs
    /\ \/ /\ capacity = NoRow
          /\ instances = WarmedUp(0)
          /\ containers = {}
       \/ /\ instances \in { WarmedUp(k) : k \in 0..BtStored }
          /\ containers \in SUBSET (DOMAIN instances)
          /\ \E pending \in 0..1, earlier \in 1..BtMaxMin :
                capacity = [current_count |-> Cardinality(DOMAIN instances) + pending,
                            max_count |-> earlier]
    /\ scaling = [last_scale_up |-> Null, last_scale_down |-> Null]
    /\ now = 0
    /\ alarm = Null
    /\ nextId = BtStored + 1
    /\ reqs = EmptyBag
    /\ tasks = EmptyBag
    /\ hb = [pc |-> "boot"]
    /\ ev = NoEv
    /\ ret = NoRet

\* initialization steps 1-3: migrate, stale cleanup (and sync when something
\* was cleaned), schedule the heartbeat
BootMigrate ==
    /\ hb.pc = "boot"
    /\ LET cap == migrate(capacity, instances, cfg.maxInstances)
           cl == cleanupStaleInstances(instances, containers)
       IN /\ instances' = cl.inst
          /\ capacity' = IF cl.cleaned # {} THEN syncCapacity(cap, cl.inst) ELSE cap
          /\ hb' = [pc |-> "warmup", i |-> 0, made |-> 0, failed |-> FALSE,
                    fresh |-> capacity = NoRow, stored |-> DOMAIN instances,
                    survived |-> DOMAIN cl.inst, synced |-> capacity', t0 |-> now]
    /\ alarm' = now + heartbeatInterval(cfg)
    /\ ev' = NoEv
    /\ UNCHANGED <<cfg, scaling, now, containers, nextId, reqs, tasks, ret>>

\* initialization step 4, one iteration of the warm-up loop (i < minInstances):
\* reserve a slot, create and track; stop when no slot is left, and release
\* the slot and stop when the creation fails
BootWarmUp ==
    /\ hb.pc = "warmup"
    /\ hb.i < cfg.minInstances
    /\ LET slot == tryReserveSlot(capacity)
       IN IF ~slot.ok
          THEN /\ hb' = [hb EXCEPT !.pc = "idle"]
               /\ UNCHANGED <<instances, capacity, containers, nextId>>
          ELSE \/ /\ instances' = recordInstance(instances, nextId, 0, TRUE, now).inst
                  /\ capacity' = slot.cap
                  /\ containers' = containers \cup {nextId}
                  /\ nextId' = nextId + 1
                  /\ hb' = [hb EXCEPT !.i = @ + 1, !.made = @ + 1,
                                      !.pc = IF hb.i + 1 < cfg.minInstances
                                             THEN "warmup" ELSE "idle"]
               \/ /\ capacity' = releaseSlot(slot.cap)
                  /\ hb' = [hb EXCEPT !.pc = "idle", !.failed = TRUE]
                  /\ UNCHANGED <<instances, containers, nextId>>
    /\ ev' = NoEv
    /\ UNCHANGED <<cfg, scaling, now, alarm, reqs, tasks, ret>>

\* the warm-up loop does not run: minInstances is 0
BootNoWarmUp ==
    /\ hb.pc = "warmup"
    /\ cfg.minInstances = 0
    /\ hb' = [hb EXCEPT !.pc = "idle"]
    /\ ev' = NoEv
    /\ UNCHANGED <<cfg, instances, capacity, scaling, now, alarm, containers, nextId,
                   reqs, tasks, ret>>

\* time passes while the warm-up awaits a creation
BootTick ==
    /\ hb.pc = "warmup"
    /\ now < BtMaxNow
    /\ now' = now + 1
    /\ ev' = NoEv
    /\ UNCHANGED <<cfg, instances, capacity, scaling, alarm, containers, nextId,
                   reqs, tasks, hb, ret>>

NextBoot ==
    \/ BootMigrate
    \/ BootWarmUp
    \/ BootNoWarmUp
    \/ BootTick

SpecBoot == InitBoot /\ [][NextBoot]_vars

-----------------------------------------------------------------------------
(* Properties *)

\* creations in progress: detached creations, the heartbeat's, and the
\* replacements that requests wait for
CreationsInProgress ==
    BagCardinality(tasks)
    + (IF hb.pc = "creating" THEN 1 ELSE 0)
    + BagCardinality([r \in { x \in BagToSet(reqs) : x.pc = "replace" } |-> reqs[r]])

\* C1: under any interleaving of requests, optimistic scale-ups and the
\* heartbeat, the registry records plus the creations in progress never
\* exceed maxInstances.
C1_FleetWithinMax ==
    Cardinality(DOMAIN instances) + CreationsInProgress <= cfg.maxInstances

\* C2: in every state reached by any sequence of migrate, tryReserveSlot,
\* releaseSlot, syncCapacity and record insertions and removals,
\* 0 <= current_count <= max_count.
C2_CounterInRange ==
    /\ 0 <= capacity.current_count
    /\ capacity.current_count <= capacity.max_count

\* the instances a request may be routed to
Routable == { n \in DOMAIN instances : instances[n].healthy /\ ~instances[n].draining }

\* C3: selectInstance never returns a draining or unhealthy instance, and it
\* returns none exactly when there is no healthy non-draining instance (it
\* still returns one when all of them are at or above maxRequestsPerInstance).
C3_SelectsOnlyRoutable ==
    ret.op = "selectInstance" =>
        /\ (ret.val # None => ret.val \in Routable)
        /\ (ret.val = None <=> Routable = {})

\* every routable instance is at capacity, an idle instance is draining or
\* unhealthy, and selectInstance returned an instance
C3_Witness ==
    /\ ret.op = "selectInstance"
    /\ ret.val # None
    /\ cfg.maxRequestsPerInstance # Undefined
    /\ \A n \in Routable : instances[n].active_requests >= cfg.maxRequestsPerInstance
    /\ \E n \in DOMAIN instances \ Routable : instances[n].active_requests = 0

\* C4: the instance selectInstance returns has the least active_requests of
\* the healthy non-draining instances and, among those with that least
\* value, the most recent last_heartbeat.
C4_SelectsLeastLoaded ==
    (ret.op = "selectInstance" /\ ret.val # None) =>
        /\ ret.val \in DOMAIN instances
        /\ \A m \in Routable :
              \/ instances[ret.val].active_requests < instances[m].active_requests
              \/ /\ instances[ret.val].active_requests = instances[m].active_requests
                 /\ instances[ret.val].last_heartbeat >= instances[m].last_heartbeat

\* two routable instances tie on active_requests and differ in last_heartbeat
C4_Witness ==
    /\ ret.op = "selectInstance"
    /\ ret.val \in Routable
    /\ \E m \in Routable :
          /\ instances[m].active_requests = instances[ret.val].active_requests
          /\ instances[m].last_heartbeat < instances[ret.val].last_heartbeat

\* C5: two consecutive scale-ups, by the heartbeat's metric check or by a
\* request's optimistic scale-up, are recorded at least scaleUpCooldown apart.
C5_ScaleUpsCooldownApart ==
    [][(ev'.kind = "scaleUp" /\ scaling.last_scale_up # Null)
          => scaling'.last_scale_up - scaling.last_scale_up >= cfg.scaleUpCooldown]_vars

\* the heartbeat's scale-down step marked an instance for draining
MarksForDraining ==
    \/ scaling'.last_scale_down # scaling.last_scale_down
    \/ \E n \in DOMAIN instances :
          /\ ~instances[n].draining
          /\ \/ (n \in DOMAIN instances' /\ instances'[n].draining)
             \/ (hb.pc = "scaleDown" /\ hb'.pc = "idle" /\ n \notin DOMAIN instances')

\* C6: two consecutive scale-downs are at least scaleDownCooldown apart: a
\* heartbeat marks no instance for draining while less than scaleDownCooldown
\* has passed since last_scale_down.
C6_ScaleDownsCooldownApart ==
    [][MarksForDraining =>
          \/ scaling.last_scale_down = Null
          \/ now - scaling.last_scale_down >= cfg.scaleDownCooldown]_vars

\* a heartbeat has just ended inside the scale-down cooldown and left alone an
\* idle healthy instance with low metrics, the count being above minInstances
C6_Witness ==
    /\ hb.pc = "idle"
    /\ alarm = now + cfg.heartbeatInterval
    /\ scaling.last_scale_down # Null
    /\ now - scaling.last_scale_down < cfg.scaleDownCooldown
    /\ Cardinality({ n \in DOMAIN instances : instances[n].healthy }) > cfg.minInstances
    /\ Routable # {}
    /\ \A n \in Routable : instances[n].current_cpu <= cfg.scaleThreshold - 45

\* C7: an instance marked draining at draining_since is destroyed and its
\* record removed no later than draining_since + drainTimeout, whatever its
\* active_requests.
C7_DrainedByTimeout ==
    \A n \in DOMAIN instances :
        instances[n].draining => now <= instances[n].draining_since + cfg.drainTimeout

\* C8: when concurrent requests raise an instance's active_requests from
\* below L = floor(maxRequestsPerInstance * threshold) to L or above, exactly
\* one of them - the one whose increment reaches L - gets true from
\* checkOptimisticScaleUp.
C8_OneCrossingPerRise ==
    [][ev'.kind = "inc" =>
          LET n == ev'.name
              before == IF n \in DOMAIN instances THEN instances[n].active_requests ELSE 0
              after == instances'[n].active_requests
              L == (cfg.maxRequestsPerInstance * cfg.capNum) \div cfg.capDen
          IN ev'.flag <=> (before < L /\ after >= L)]_vars

\* two requests are in flight on one instance and the second was answered false
C8_Witness ==
    /\ ev.kind = "inc"
    /\ ~ev.flag
    /\ ev.prev >= 1
    /\ BagCardinality([r \in { x \in BagToSet(reqs) : x.pc = "forward" /\ x.name = ev.name }
                         |-> reqs[r]]) = 2

\* what the metric check of this step would need to fire for instance n
Eligible(n) ==
    /\ instances[n].healthy
    /\ ~instances[n].draining
    /\ instances[n].current_cpu > cfg.scaleThreshold
    /\ instances[n].threshold_crossed_at # Null
    /\ now - instances[n].threshold_crossed_at >= cfg.scaleUpCooldown
    /\ Cardinality({ m \in DOMAIN instances : instances[m].healthy }) < cfg.maxInstances

\* C9 as stated: once shouldScaleUpForMetrics has fired for an instance at T
\* it does not fire for it before T + scaleUpCooldown, and it fires at the
\* first heartbeat at or after T + scaleUpCooldown while the instance is still
\* above its threshold and the fleet is below maxInstances.
C9_FiresAgainAfterWindow ==
    [][ev'.kind = "metrics" =>
          /\ (ev'.flag /\ ev'.prev # Null => now - ev'.prev >= cfg.scaleUpCooldown)
          /\ ((\E n \in DOMAIN instances : Eligible(n)) => ev'.flag)]_vars

\* C9 amended: it does not fire for the instance before T + scaleUpCooldown,
\* and it fires at a heartbeat at or after T + scaleUpCooldown when, besides,
\* no scale-up was recorded during the last scaleUpCooldown.
C9_FiresAgainOutsideCooldown ==
    [][ev'.kind = "metrics" =>
          /\ (ev'.flag /\ ev'.prev # Null => now - ev'.prev >= cfg.scaleUpCooldown)
          /\ ((/\ \E n \in DOMAIN instances : Eligible(n)
               /\ \/ scaling.last_scale_up = Null
                  \/ now - scaling.last_scale_up >= cfg.scaleUpCooldown)
                 => ev'.flag)]_vars

\* the metric check fired for an instance that had fired before
C9_Witness ==
    /\ ev.kind = "metrics"
    /\ ev.flag
    /\ ev.prev # Null
    /\ instances[ev.name].threshold_crossed_at = now

\* C10: every increment is followed by one decrement when the forward ends,
\* with a response or a throw; so once no forwarded request is in flight,
\* every instance's active_requests is 0.
C10_CountersReturnToZero ==
    (\A r \in BagToSet(reqs) : r.pc # "forward")
        => \A n \in DOMAIN instances : instances[n].active_requests = 0

\* the last forward in flight threw, and its instance is back at 0
C10_Witness ==
    /\ ev.kind = "done"
    /\ ~ev.flag
    /\ \A r \in BagToSet(reqs) : r.pc # "forward"
    /\ ev.name \in DOMAIN instances
    /\ instances[ev.name].active_requests = 0

\* C11: every record has active_requests >= 0, and decrementRequests on a
\* record whose active_requests is 0 leaves it at 0.
C11_ActiveRequestsNotNegative ==
    [][/\ \A n \in DOMAIN instances' : instances'[n].active_requests >= 0
       /\ (/\ ret'.op = "decrementRequests"
           /\ ret'.val \in DOMAIN instances
           /\ instances[ret'.val].active_requests = 0)
             => instances'[ret'.val].active_requests = 0]_vars

\* decrementRequests has just run on a record that was already at 0
C11_Witness ==
    /\ ret.op = "decrementRequests"
    /\ ret.val \in DOMAIN instances
    /\ ret.prev = 0
    /\ instances[ret.val].active_requests = 0

\* C12: shouldScaleDown returns false whenever the instance count (healthy
\* instances, as getInstanceCount counts them, or all records) is at or
\* below minInstances, and selectInstancesForRemoval returns at most
\* count - minInstances instances, none when count <= minInstances.
C12_RespectsMinInstances ==
    \A count \in { getInstanceCount(instances, TRUE), getInstanceCount(instances, FALSE) } :
        /\ (ret.op = "shouldScaleDown" /\ count <= cfg.minInstances) => ret.val = FALSE
        /\ ret.op = "selectInstancesForRemoval" =>
              Len(ret.val) <= Max(0, count - cfg.minInstances)

\* two healthy idle instances are below the scale-down thresholds, one above
\* minInstances, and exactly one was selected
C12_Witness ==
    /\ ret.op = "selectInstancesForRemoval"
    /\ cfg.minInstances = 1
    /\ Cardinality(Matching(instances, HealthyNotDraining)) = 2
    /\ \A n \in DOMAIN instances :
          ~metricsExceedThresholds(instances[n], calculateScaleDownThresholds(cfg))
    /\ Len(ret.val) = 1

\* C13: when the fleet is at maxInstances (current_count = max_count) no
\* creation is attempted on a scale-up path: shouldScaleUpForMetrics and
\* shouldScaleUpForRequests return false, tryReserveSlot returns false and
\* leaves the counter as it is, no creation starts, and a request that finds
\* no instance is answered 503 with no creation started.  (A step that purges
\* a record lowers the counter before it goes on, and is left aside.)
C13_NoScaleUpAtMax ==
    [][(/\ capacity.current_count = capacity.max_count
        /\ DOMAIN instances \subseteq DOMAIN instances') =>
          /\ (ev'.kind = "metrics" => ~ev'.flag)
          /\ ~shouldScaleUpForRequests(instances, scaling, now, cfg)
          /\ ~tryReserveSlot(capacity).ok
          /\ tryReserveSlot(capacity).cap = capacity
          /\ CreationsInProgress' <= CreationsInProgress
          /\ (ev'.kind = "resp" /\ reqs' = reqs) =>
                (ev'.prev = 503 /\ ~ev'.flag /\ tasks' = tasks)]_vars

DerivedScaleDownThresholds ==
    /\ cfg.scaleDownThreshold = Undefined
    /\ cfg.scaleDownThresholdCPU = Undefined
    /\ cfg.scaleDownThresholdMemory = Undefined
    /\ cfg.scaleDownThresholdDisk = Undefined

\* C14: with the scale-down thresholds derived by the -45 offset, no registry
\* makes both shouldScaleUpForMetrics and shouldScaleDown answer true: when the
\* one answered true the other answers false on the same registry, clock and
\* scaling timestamps (and on the registry the scale-up test leaves).
C14_NoFlapping ==
    DerivedScaleDownThresholds =>
        /\ (ret.op = "shouldScaleUpForMetrics" /\ ret.val) =>
              /\ ~shouldScaleDown(ret.before, scaling, now, cfg)
              /\ ~shouldScaleDown(instances, scaling, now, cfg)
        /\ (ret.op = "shouldScaleDown" /\ ret.val) =>
              \A o \in shouldScaleUpForMetrics(instances, scaling, now, cfg) : ~o.result

\* shouldScaleUpForMetrics answered true where nothing but the thresholds
\* keeps shouldScaleDown from answering true: more healthy instances than
\* minInstances, outside the scale-down cooldown
C14_Witness ==
    /\ DerivedScaleDownThresholds
    /\ ret.op = "shouldScaleUpForMetrics"
    /\ ret.val
    /\ getInstanceCount(ret.before, TRUE) > cfg.minInstances
    /\ ~isInScaleDownCooldown(scaling, now, cfg)
    /\ ~shouldScaleDown(ret.before, scaling, now, cfg)

\* a metric of rec whose specific threshold is configured is over that
\* threshold or over the general one
ConfiguredMetricOver(rec, c) ==
    LET over(v, specific) ==
            /\ specific # Undefined
            /\ (v > specific \/ (c.scaleThreshold # Undefined /\ v > c.scaleThreshold))
    IN \/ over(rec.current_cpu, c.scaleThesholdCPU)
       \/ over(rec.current_memory, c.scaleThesholdMemoryMiB)
       \/ over(rec.current_disk, c.scaleThesholdDiskGB)

\* C15: when some but not all of the three specific scale-up thresholds are
\* configured, shouldScaleUpForMetrics answers true only for an instance one of
\* whose configured metrics is over a threshold, never because of a metric
\* whose specific threshold is missing.
C15_NoScaleUpOnUnconfiguredMetric ==
    (/\ hasSpecificThresholds(cfg)
     /\ ~hasAllSpecificThresholds(cfg)
     /\ ret.op = "shouldScaleUpForMetrics"
     /\ ret.val) =>
        ConfiguredMetricOver(ret.before[ret.name], cfg)

\* C16: performHealthCheck on a success sets health_check_failures to 0 and
\* healthy to true whatever the record held; on a failure it adds one to
\* health_check_failures and sets healthy to false exactly when the new count
\* is >= healthCheckRetries.  So a check turns a healthy instance unhealthy
\* only as the last of at least healthCheckRetries failed checks in a row.
C16_HealthCheckCounts ==
    (ret.op = "performHealthCheck" /\ ret.val \in DOMAIN ret.before) =>
        LET old == ret.before[ret.val]
            new == instances[ret.val]
        IN /\ ret.ok => (new.health_check_failures = 0 /\ new.healthy)
           /\ ~ret.ok =>
                 /\ new.health_check_failures = old.health_check_failures + 1
                 /\ new.healthy = ~(new.health_check_failures >= healthCheckRetries(cfg))
           /\ ret.result = ret.ok
           /\ (old.healthy /\ ~new.healthy) => ret.fails[ret.val] >= healthCheckRetries(cfg)

\* the second failed check in a row, with healthCheckRetries = 2, has just
\* turned a healthy instance unhealthy
C16_Witness ==
    /\ ret.op = "performHealthCheck"
    /\ ret.val \in DOMAIN ret.before
    /\ ~ret.ok
    /\ cfg.healthCheckRetries = 2
    /\ ret.before[ret.val].healthy
    /\ ret.before[ret.val].health_check_failures = 1
    /\ ~instances[ret.val].healthy
    /\ ret.fails[ret.val] = 2

\* C17: after destroyInstance(name) the registry holds no record for name,
\* whether container.destroy() succeeded or threw, and destroyInstance itself
\* lets no exception out.
C17_DestroyAlwaysRemoves ==
    ret.op = "destroyInstance" => (ret.val \notin DOMAIN instances /\ ~ret.raised)

\* container.destroy() threw for an instance that had a record
C17_Witness ==
    /\ ret.op = "destroyInstance"
    /\ ~ret.ok
    /\ ret.val \in DOMAIN ret.before
    /\ ret.val \notin DOMAIN instances

\* a creation that held a reserved slot ends in this step without a container
CreationFails == CreationsInProgress' < CreationsInProgress /\ nextId' = nextId

\* C18: when a creation that holds a reserved slot fails (on-demand,
\* optimistic, replacement or heartbeat scale-up), the slot is released:
\* current_count goes back by the one the reservation added, no record is
\* added and last_scale_up stays as it was.
C18_FailedCreationReleasesSlot ==
    [][CreationFails =>
          /\ capacity'.current_count = capacity.current_count - 1
          /\ instances' = instances
          /\ scaling' = scaling]_vars

\* the step answered a request: without forwarding it ("resp") or after the
\* forward ended ("done")
Answered == ev'.kind \in {"resp", "done"}

C21_RecordThenDecrementRestores ==
    ret.op = "recordThenDecrement" =>
        /\ ret.val \in DOMAIN instances
        /\ instances[ret.val].active_requests =
              (IF ret.val \in DOMAIN ret.before
               THEN ret.before[ret.val].active_requests ELSE 0)
        /\ ret.previousRequests = instances[ret.val].active_requests

\* two requests were recorded on an instance that already held one, and two
\* decrements brought it back to one
C21_Witness ==
    /\ ret.op = "recordThenDecrement"
    /\ ret.k = 2
    /\ ret.val \in DOMAIN ret.before
    /\ ret.before[ret.val].active_requests = 1
    /\ ret.mid[ret.val].active_requests = 3
    /\ instances[ret.val].active_requests = 1

\* C22 as stated: tryReserveSlot followed by releaseSlot leaves current_count
\* at the value it had before the pair, for every starting value from 0 to
\* max_count.
C22_ReserveReleaseNoOp ==
    ret.op = "reserveThenRelease" => capacity = ret.before

\* C22 amended: a tryReserveSlot that succeeds followed by releaseSlot leaves
\* current_count at the value it had before the pair (every starting value
\* below max_count); at max_count tryReserveSlot fails and changes nothing,
\* and a releaseSlot that follows lowers the counter by one.
C22_ReservedThenReleasedNoOp ==
    ret.op = "reserveThenRelease" =>
        /\ ret.val = 1 <=> ret.before.current_count < ret.before.max_count
        /\ ret.val = 1 => (ret.mid.current_count = ret.before.current_count + 1
                            /\ capacity = ret.before)
        /\ ret.val = 0 => (ret.mid = ret.before
                            /\ capacity.current_count = Max(0, ret.before.current_count - 1)
                            /\ capacity.max_count = ret.before.max_count)

\* a slot was reserved from a counter one below max_count and released again
C22_Witness ==
    /\ ret.op = "reserveThenRelease"
    /\ ret.val = 1
    /\ ret.before.current_count = ret.before.max_count - 1
    /\ ret.mid.current_count = ret.mid.max_count
    /\ capacity = ret.before

\* C23: migrate called again on a migrated store leaves the records, the
\* capacity counter (max_count included, whatever maxInstances is passed) and
\* the scaling timestamps exactly as they were.
C23_MigrateIdempotent ==
    [][ret'.op = "migrateTwice" =>
          /\ capacity' = ret'.mid
          /\ (capacity # NoRow => capacity' = capacity)
          /\ instances' = instances
          /\ scaling' = scaling]_vars

\* migrate ran again, with another maxInstances, on a store that holds
\* records, a counter that differs from the row count and a scale-up time
C23_Witness ==
    /\ ret.op = "migrateTwice"
    /\ ret.before # NoRow
    /\ ret.val # capacity.max_count
    /\ capacity.current_count # Cardinality(DOMAIN instances)
    /\ DOMAIN instances # {}
    /\ scaling.last_scale_up # Null

\* the initialization has ended
Booted == hb.pc = "idle" /\ "made" \in DOMAIN hb

C25_RestartPurgesAndTopsUp ==
    ("made" \in DOMAIN hb /\ ~hb.fresh) =>
        /\ \A n \in hb.stored : n \in DOMAIN instances => n \in hb.survived
        /\ \A n \in hb.survived : n \in containers
        /\ hb.synced.current_count = Cardinality(hb.survived)
        /\ hb.made <= Max(0, cfg.minInstances - Cardinality(hb.survived))

\* a request has just taken its instance across the capacity limit and an
\* optimistic scale-up holds a slot
CrossedWithSlot ==
    /\ ev.kind = "inc"
    /\ ev.flag
    /\ "optimistic" \in BagToSet(tasks)

\* the optimistic scale-up added a record and recorded last_scale_up
OptimisticRecorded ==
    /\ ev.kind = "scaleUp"
    /\ ev.flag
    /\ ev.name \in DOMAIN instances
    /\ scaling.last_scale_up = now

\* the optimistic scale-up's creation failed
OptimisticFailed == ev.kind = "createFailed" /\ ev.flag

C27_CounterMatchesFleet ==
    capacity.current_count = Cardinality(DOMAIN instances) + CreationsInProgress

\* C28: a request whose selected instance was removed from the registry (by
\* the heartbeat's drain or by a stale cleanup) before its incrementRequests
\* ran does not bring the record back: a request is counted on and forwarded
\* to an existing instance only if that instance is registered at that moment.
C28_NoResurrection ==
    [][(ev'.kind = "inc" /\ nextId' = nextId) => ev'.name \in DOMAIN instances]_vars

FailedBefore(n) ==
    /\ instances[n].threshold_crossed_at # Null
    /\ instances[n].threshold_crossed_at < now
    /\ (scaling.last_scale_up = Null
        \/ scaling.last_scale_up < instances[n].threshold_crossed_at)

\* C30: after a heartbeat's metric scale-up failed (no slot, or the creation
\* failed), a later heartbeat that finds the same instance still over its
\* threshold and the fleet below maxInstances attempts the scale-up again:
\* shouldScaleUpForMetrics answers true and a creation is started.
C30_FailedScaleUpRetried ==
    [][(/\ hb.pc = "scaleUp"
        /\ hb'.pc # "scaleUp"
        /\ getInstanceCount(instances, TRUE) < cfg.maxInstances
        /\ capacity.current_count < capacity.max_count
        /\ \E n \in Routable : FailedBefore(n) /\ exceedsThreshold(instances[n], cfg)) =>
          /\ ev'.kind = "metrics"
          /\ ev'.flag
          /\ hb'.pc = "creating"]_vars

\* C31: after every initialization, also a restart of a kept store whose
\* earlier run was configured with another maxInstances, max_count equals
\* the configured maxInstances.
C31_MaxCountFollowsConfig ==
    "made" \in DOMAIN hb => capacity.max_count = cfg.maxInstances

\* floor(maxRequestsPerInstance x scaleUpCapacityThreshold): the largest
\* integer not above the product
FloorOfLimit(c) ==
    CHOOSE k \in 0..CrMaxPerInstance :
        /\ k * c.capDen <= c.maxRequestsPerInstance * c.capNum
        /\ (k + 1) * c.capDen > c.maxRequestsPerInstance * c.capNum

\* C32: checkOptimisticScaleUp(name, p) is true exactly when
\* maxRequestsPerInstance is configured and p < L <= p + 1 with
\* L = floor(maxRequestsPerInstance x scaleUpCapacityThreshold); it is false
\* for every p when maxRequestsPerInstance is not configured.
C32_CrossingFromBelow ==
    ret.op = "checkOptimisticScaleUp" =>
        /\ ret.val <=> /\ cfg.maxRequestsPerInstance # Undefined
                       /\ ret.prev < FloorOfLimit(cfg)
                       /\ FloorOfLimit(cfg) <= ret.prev + 1
        /\ cfg.maxRequestsPerInstance = Undefined => ~ret.val

\* maxRequestsPerInstance 4 at the default 0.7: the limit is 2 and the step
\* from 1 to 2 crosses it
C32_Witness ==
    /\ ret.op = "checkOptimisticScaleUp"
    /\ cfg.maxRequestsPerInstance = 4
    /\ cfg.capNum = 7
    /\ ret.prev = 1
    /\ ret.val

\* active_requests summed over the healthy non-draining instances
RoutableLoad ==
    LET RECURSIVE Total(_)
        Total(S) == IF S = {} THEN 0
                    ELSE LET n == CHOOSE x \in S : TRUE
                         IN instances[n].active_requests + Total(S \ {n})
    IN Total(Routable)

\* C33: with maxRequestsPerInstance configured, the fleet below maxInstances
\* and no scale-up cooldown active, shouldScaleUpForRequests is true exactly
\* when the active_requests of the healthy non-draining instances divided by
\* their number exceeds maxRequestsPerInstance.
C33_AverageOverRoutable ==
    (/\ ret.op = "shouldScaleUpForRequests"
     /\ cfg.maxRequestsPerInstance # Undefined
     /\ getInstanceCount(instances, TRUE) < cfg.maxInstances
     /\ ~isInScaleUpCooldown(scaling, now, cfg)) =>
        (ret.val <=> /\ Routable # {}
                     /\ RoutableLoad > cfg.maxRequestsPerInstance * Cardinality(Routable))

\* the non-draining unhealthy instances
UnhealthyNotDraining ==
    { n \in DOMAIN instances : ~instances[n].healthy /\ ~instances[n].draining }

\* the healthy non-draining instances at or below every scale-down threshold
BelowScaleDown ==
    { n \in Routable :
        ~metricsExceedThresholds(instances[n], calculateScaleDownThresholds(cfg)) }

\* the list begins with all non-draining unhealthy instances
C34_UnhealthyAllFirst ==
    ret.op = "selectInstancesForRemoval" =>
        /\ Len(ret.val) >= Cardinality(UnhealthyNotDraining)
        /\ { ret.val[i] : i \in 1..Cardinality(UnhealthyNotDraining) } = UnhealthyNotDraining

\* what follows the unhealthy ones is healthy, non-draining, at or below the
\* scale-down thresholds, and ordered by active_requests, then last_heartbeat
C34_RestBelowAndOrdered ==
    ret.op = "selectInstancesForRemoval" =>
        LET rest == SelectSeq(ret.val, LAMBDA n : instances[n].healthy)
        IN /\ \A i \in 1..Len(ret.val) :
                 \/ ret.val[i] \in UnhealthyNotDraining
                 \/ ret.val[i] \in BelowScaleDown
           /\ \A i, j \in 1..Len(ret.val) :
                 (i < j /\ instances[ret.val[i]].healthy) => instances[ret.val[j]].healthy
           /\ RemovalOrder(instances, rest)

\* C34: selectInstancesForRemoval returns all non-draining unhealthy
\* instances first, followed only by healthy non-draining instances at or
\* below the scale-down thresholds, ordered by active_requests ascending and
\* then last_heartbeat ascending; it never returns a draining instance or a
\* healthy instance above a scale-down threshold.
C34_RemovalSelection ==
    /\ C34_UnhealthyAllFirst
    /\ C34_RestBelowAndOrdered

\* the instances of the returned list
Selected == { ret.val[i] : i \in 1..Len(ret.val) }

\* C35: scale-down never leaves fewer than minInstances healthy non-draining
\* instances: when shouldScaleDown holds and the instances returned by
\* selectInstancesForRemoval are marked draining, the healthy non-draining
\* instances that remain are at least minInstances, also when some healthy
\* instances were already draining.
C35_FloorOfRoutableKept ==
    (/\ ret.op = "selectInstancesForRemoval"
     /\ shouldScaleDown(instances, scaling, now, cfg)
     /\ Selected \cap Routable # {}) =>
        LET marked == MarkAll(instances, ret.val, now)
        IN Cardinality({ n \in DOMAIN marked : marked[n].healthy /\ ~marked[n].draining })
              >= cfg.minInstances

\* requests in flight on n: counted on it and not yet decremented
InFlightOn(n) == CopiesIn([pc |-> "forward", name |-> n], reqs)

\* C36: in every reachable state each instance's active_requests equals the
\* number of requests in flight on it, under any interleaving of requests,
\* optimistic scale-ups and heartbeats.
C36_ActiveRequestsCountInFlight ==
    \A n \in DOMAIN instances : instances[n].active_requests = InFlightOn(n)

\* C37: in every reachable state a record with healthy = true has
\* health_check_failures < healthCheckRetries, also when incrementRequests or
\* recordInstance interleave with the heartbeat's health checks.
C37_HealthyMeansFewFailures ==
    \A n \in DOMAIN instances :
        instances[n].healthy => instances[n].health_check_failures < healthCheckRetries(cfg)

\* C38: given that heartbeats keep firing, no instance stays in the registry
\* unhealthy for ever: it is drained and removed (or found healthy again),
\* also while the healthy instances are above the scale-down thresholds, the
\* count is at minInstances or the scale-down cooldown is renewed.
C38_UnhealthyEventuallyRemoved ==
    \A n \in 1..SickNames :
        []<>(n \notin DOMAIN instances \/ instances[n].healthy)

SameDraining(I, J, n) ==
    /\ n \in DOMAIN J
    /\ J[n].draining = I[n].draining
    /\ J[n].draining_since = I[n].draining_since

\* C40: once a record is marked draining, draining stays true and
\* draining_since keeps its first value until the record is removed:
\* recordInstance, incrementRequests, updateHealth, updateHeartbeat and
\* updateMetrics neither clear nor reset them.
C40_DrainingIsKept ==
    /\ [][\A n \in DOMAIN instances \cap DOMAIN instances' :
            instances[n].draining =>
                /\ instances'[n].draining
                /\ instances'[n].draining_since = instances[n].draining_since]_vars
    /\ [](\A n \in DOMAIN instances :
            instances[n].draining =>
                /\ SameDraining(instances, recordInstance(instances, n, 1, TRUE, now).inst, n)
                /\ SameDraining(instances, incrementRequests(instances, n, now, TRUE, 1).inst, n)
                /\ SameDraining(instances, updateHealth(instances, n, FALSE, 1), n)
                /\ SameDraining(instances, updateHeartbeat(instances, n, now), n)
                /\ SameDraining(instances, updateMetrics(instances, n, 90, 90, 90), n))

\* a request has just been counted on an instance that was marked draining
\* at an earlier time
C40_Witness ==
    /\ ev.kind = "inc"
    /\ ev.name \in DOMAIN instances
    /\ instances[ev.name].draining
    /\ instances[ev.name].draining_since < now

====
